---- MODULE Spec2Model ----
(***************************************************************************)
(* Life-like cellular automata on a toroidal grid (Parallel_Life).         *)
(*                                                                         *)
(* Two executables are modelled:                                           *)
(*   "seq"  the default sequential Game of Life (B3/S23), and              *)
(*   "par"  the Invertamaze (B028/S0124) OpenMP parallel-for variant,      *)
(* together with the rulestring parser of the custom-rule header.          *)
(***************************************************************************)
EXTENDS Integers, Sequences, FiniteSets, TLC

VARIABLES
    prog,          \* which executable runs: "seq" or "par"
    gWidth,        \* global grid width  (--width)
    gHeight,       \* global grid height (--height)
    steps,         \* --steps, -1 = run forever
    draw_enabled,  \* FALSE iff --no-draw
    threads,       \* --threads, -1 = platform default
    argFail,       \* the lines of the uncaught exception argument parsing ends with, <<>> if none
    pc,            \* position of the main thread
    mem,           \* the two grid buffers of main: mem.cur and mem.nxt
    iter,          \* number of completed step() calls
    team,          \* number of threads of the running parallel region (0 = none)
    widx,          \* per thread: next flattened iteration it will execute
    exitCode,      \* exit status of main (-1 while running)
    err,           \* lines written to std::cerr
    cur0,          \* history: contents of cur when the latest step() was called
    nxt0,          \* history: contents of nxt when the latest step() was called
    rdBufs,        \* history: buffers read during the current pass
    wrBufs,        \* history: buffers written during the current pass
    wrLog,         \* history: per cell, the threads that wrote it, with multiplicity
    init0,         \* history: the grid the initialiser left in cur
    rule,          \* the rulestring handed to parse_rulestring
    origin,        \* history: the rulestring before separators / case were changed
    nedits,        \* history: number of changes made to the rulestring
    tables         \* the RuleTables parse_rulestring returned, with its diagnostics

pvars == <<rule, origin, nedits, tables>>

dvars == <<prog, gWidth, gHeight, steps, draw_enabled, threads, argFail, mem, iter,
           team, widx, exitCode, cur0, nxt0, rdBufs, wrBufs, wrLog, init0>>

vars == <<prog, gWidth, gHeight, steps, draw_enabled, threads, argFail, pc, mem, iter,
          team, widx, exitCode, err, cur0, nxt0, rdBufs, wrBufs, wrLog, init0,
          rule, origin, nedits, tables>>

(***************************************************************************)
(* Bounds of the model.                                                    *)
(***************************************************************************)
MaxW == 3
MaxH == 3
MaxCells == 9
MaxLive == 1
MaxSteps == 1
MaxIter == 2
MaxThreads == 2
MaxPatDim == 5
MaxRuleLen == 3
MaxEdits == 1

(***************************************************************************)
(* Grids.                                                                  *)
(***************************************************************************)
NoGrid == <<>>

ZeroGrid(h, w) == [y \in 0..(h - 1) |-> [x \in 0..(w - 1) |-> 0]]

OnesGrid(h, w) == [y \in 0..(h - 1) |-> [x \in 0..(w - 1) |-> 1]]

Cells(h, w) == 0..(h * w - 1)

AllGrids(h, w) == [0..(h - 1) -> [0..(w - 1) -> {0, 1}]]

RECURSIVE SumRow(_, _)
SumRow(r, n) == IF n = 0 THEN 0 ELSE r[n - 1] + SumRow(r, n - 1)

RECURSIVE Population(_, _, _)
Population(g, h, w) ==
    IF h = 0 THEN 0 ELSE SumRow(g[h - 1], w) + Population(g, h - 1, w)

\* The remainder taken without first adding the size: (idx + delta) % size.
CRemNoBias(a, b) ==
    IF a - b >= 0 THEN (a - b) % b ELSE 0 - ((b - a) % b)

\* C++ integer remainder: truncates toward zero.
CRem(a, b) == IF a >= 0 THEN a % b ELSE 0 - ((0 - a) % b)

\* The 8 offsets <<dy, dx>> in the order of the nested dy/dx loops.
Offsets ==
    << <<-1, -1>>, <<-1, 0>>, <<-1, 1>>,
       << 0, -1>>,            << 0, 1>>,
       << 1, -1>>, << 1, 0>>, << 1, 1>> >>

\* A bounded (non-toroidal) count: neighbours off the edge are skipped.
neighbor_count_nowrap(g, y, x) ==
    LET h == gHeight
        w == gWidth
        term(i) ==
            LET yy == y + Offsets[i][1]
                xx == x + Offsets[i][2]
            IN  IF yy \in 0..(h - 1) /\ xx \in 0..(w - 1) THEN g[yy][xx] ELSE 0
    IN  term(1) + term(2) + term(3) + term(4) + term(5) + term(6) + term(7) + term(8)

\* A count over the distinct neighbouring cells, the cell itself excluded.
neighbor_count_distinct(g, y, x) ==
    LET N == {<<CRem(y + Offsets[i][1] + gHeight, gHeight),
                CRem(x + Offsets[i][2] + gWidth, gWidth)>> : i \in 1..8}
             \ {<<y, x>>}
    IN  Cardinality({q \in N : g[q[1]][q[2]] # 0})

\* cnt += g[(y + dy + gHeight) % gHeight][(x + dx + gWidth) % gWidth] for the
\* offsets dy, dx in -1..1 other than (0, 0); each wrapped row and column
\* index is computed once.
neighbor_count(g, y, x) ==
    LET ym == CRem(y - 1 + gHeight, gHeight)
        y0 == CRem(y + 0 + gHeight, gHeight)
        yp == CRem(y + 1 + gHeight, gHeight)
        xm == CRem(x - 1 + gWidth, gWidth)
        x0 == CRem(x + 0 + gWidth, gWidth)
        xp == CRem(x + 1 + gWidth, gWidth)
    IN  g[ym][xm] + g[ym][x0] + g[ym][xp]
        + g[y0][xm] + g[y0][xp]
        + g[yp][xm] + g[yp][x0] + g[yp][xp]

(***************************************************************************)
(* Rules.                                                                  *)
(***************************************************************************)
\* A birth table that lacks the entry for eight neighbours.
InvBNo8 == [n \in 0..8 |-> <<1, 0, 1, 0, 0, 0, 0, 0, 0>>[n + 1]]

\* A survival table in which a cell with eight neighbours survives.
InvSWith8 == [n \in 0..8 |-> <<1, 1, 1, 0, 1, 0, 0, 0, 1>>[n + 1]]

\* static const uint8_t B[9] = {1,0,1,0,0,0,0,0,1};
InvB == [n \in 0..8 |-> <<1, 0, 1, 0, 0, 0, 0, 0, 1>>[n + 1]]

\* static const uint8_t S[9] = {1,1,1,0,1,0,0,0,0};
InvS == [n \in 0..8 |-> <<1, 1, 1, 0, 1, 0, 0, 0, 0>>[n + 1]]

Bit(b) == IF b THEN 1 ELSE 0

\* nextAlive = (!alive && B[n]) || (alive && S[n]), for a cell of value c
TableRule(B, S, c, n) ==
    LET alive == c # 0
    IN  Bit((~alive /\ B[n] # 0) \/ (alive /\ S[n] # 0))

TableCell(B, S, g, y, x) == TableRule(B, S, g[y][x], neighbor_count(g, y, x))

\* Variants of the default rule: without survival on 3; with birth on 2.
ConwayRuleNoSurvive3(c, n) == Bit((c = 0 /\ n = 3) \/ (c # 0 /\ n = 2))

ConwayRuleBirth2(c, n) == Bit((n = 3) \/ (n = 2))

\* nxt[y][x] = (n == 3) || (cur[y][x] && n == 2), for a cell of value c
ConwayRule(c, n) == Bit((n = 3) \/ (c # 0 /\ n = 2))

ConwayCell(g, y, x) == ConwayRule(g[y][x], neighbor_count(g, y, x))

NextCell(p, g, y, x) ==
    IF p = "seq" THEN ConwayCell(g, y, x) ELSE TableCell(InvB, InvS, g, y, x)

(***************************************************************************)
(* The sequential row-major pass: for y, for x: n[y][x] = f(c, y, x).      *)
(***************************************************************************)
\* A pass that stores only the live cells and relies on a cleared buffer.
RECURSIVE SeqLoopSparse(_, _, _, _)
SeqLoopSparse(p, c, n, k) ==
    IF k >= gHeight * gWidth THEN n
    ELSE LET y == k \div gWidth
             x == k % gWidth
         IN  SeqLoopSparse(p, c,
                 IF NextCell(p, c, y, x) = 1 THEN [n EXCEPT ![y][x] = 1] ELSE n,
                 k + 1)

RECURSIVE SeqLoop(_, _, _, _)
SeqLoop(p, c, n, k) ==
    IF k >= gHeight * gWidth THEN n
    ELSE LET y == k \div gWidth
             x == k % gWidth
         IN  SeqLoop(p, c, [n EXCEPT ![y][x] = NextCell(p, c, y, x)], k + 1)

(***************************************************************************)
(* schedule(static) over the collapsed iteration space 0..n-1: at most one *)
(* contiguous chunk per thread, sizes differing by at most one.            *)
(***************************************************************************)
ChunkStart(n, T, i) ==
    LET q == n \div T
        t == n % T
    IN  IF i < t THEN (q + 1) * i ELSE q * i + t

\* A split whose chunks leave the remainder iterations unassigned.
ChunkEndTruncated(n, T, i) == ChunkStart(n, T, i) + (n \div T)

\* A split whose chunks overlap the following chunk by one iteration.
ChunkEndOverlap(n, T, i) ==
    LET q == n \div T
        t == n % T
        e == ChunkStart(n, T, i) + (IF i < t THEN q + 1 ELSE q)
    IN  IF e < n /\ e > ChunkStart(n, T, i) THEN e + 1 ELSE e

ChunkEnd(n, T, i) ==
    LET q == n \div T
        t == n % T
    IN  ChunkStart(n, T, i) + (IF i < t THEN q + 1 ELSE q)

\* The buffers the loop body reads and writes.
ReadBuf == "cur"

WriteBufInPlace == "cur"

WriteBuf == "nxt"

cur == mem.cur
nxt == mem.nxt

(***************************************************************************)
(* The rulestring parser.  A string is a sequence of one-character strings.*)
(***************************************************************************)
NoTables == [none |-> TRUE]

npos == -1

DigitChars == <<"0", "1", "2", "3", "4", "5", "6", "7", "8", "9">>

IsDigitChar(c) == \E d \in 0..9 : DigitChars[d + 1] = c

\* c - '0'
DigitOf(c) == CHOOSE d \in 0..9 : DigitChars[d + 1] = c

Range(q) == {q[i] : i \in DOMAIN q}

Zero9 == [n \in 0..8 |-> 0]

\* for (char c : rule) if (c != ' ' && c != ',') r.push_back(c);
RECURSIVE Strip(_)
Strip(q) ==
    IF q = <<>> THEN <<>>
    ELSE IF Head(q) # " " /\ Head(q) # "," THEN <<Head(q)>> \o Strip(Tail(q))
         ELSE Strip(Tail(q))

\* r.find_first_of(chars): 0-based position of the first character of r
\* that is in chars, npos if there is none.
find_first_of(r, chars) ==
    IF \E i \in 1..Len(r) : r[i] \in chars
    THEN (CHOOSE i \in 1..Len(r) :
             /\ r[i] \in chars
             /\ \A j \in 1..(i - 1) : r[j] \notin chars) - 1
    ELSE npos

\* The marker sets of a parser that only knows the upper-case markers.
BMarkersUpper == {"B"}

BMarkers == {"B", "b"}

SMarkers == {"S", "s"}

\* A scan that does not stop at the slash.
IsStopNoSlash(c) == c \in {"B", "b", "S", "s"}

\* c=='/' || c=='B' || c=='b' || c=='S' || c=='s'
IsStop(c) == c \in {"/", "B", "b", "S", "s"}

\* A scan that gives up at the first invalid digit.
RECURSIVE fillDigitsStopAtInvalid(_, _, _)
fillDigitsStopAtInvalid(s, i, acc) ==
    IF i >= Len(s) THEN acc
    ELSE LET c == s[i + 1]
         IN  IF c \in {"/", "B", "b", "S", "s"} THEN acc
             ELSE IF IsDigitChar(c) /\ DigitOf(c) <= 8
                  THEN fillDigitsStopAtInvalid(s, i + 1,
                          [acc EXCEPT !.arr[DigitOf(c)] = 1])
             ELSE IF IsDigitChar(c)
                  THEN [acc EXCEPT !.invalidFound = TRUE,
                                   !.invalidChars =
                                       IF c \in Range(@) THEN @ ELSE Append(@, c)]
             ELSE fillDigitsStopAtInvalid(s, i + 1, acc)

\* The lambda fillDigits: scan s from position i (0-based) into acc.arr,
\* recording invalid digits in acc.invalidFound / acc.invalidChars.
RECURSIVE fillDigits(_, _, _)
fillDigits(s, i, acc) ==
    IF i >= Len(s) THEN acc
    ELSE LET c == s[i + 1]
         IN  IF IsStop(c) THEN acc
             ELSE IF IsDigitChar(c) /\ DigitOf(c) <= 8
                  THEN fillDigits(s, i + 1, [acc EXCEPT !.arr[DigitOf(c)] = 1])
             ELSE IF IsDigitChar(c)
                  THEN fillDigits(s, i + 1,
                          [acc EXCEPT !.invalidFound = TRUE,
                                      !.invalidChars =
                                          IF c \in Range(@) THEN @ ELSE Append(@, c)])
             ELSE fillDigits(s, i + 1, acc)

\* The list "c1,c2,..." printed after the warning text.
RECURSIVE JoinComma(_)
JoinComma(q) ==
    IF q = <<>> THEN <<>>
    ELSE IF Len(q) = 1 THEN q
    ELSE <<Head(q), ",">> \o JoinComma(Tail(q))

\* A default branch that forgets S[3].
DefaultTablesNoS3 ==
    [B |-> [Zero9 EXCEPT ![3] = 1],
     S |-> [Zero9 EXCEPT ![2] = 1],
     cerr |-> <<>>]

\* t.B.fill(0); t.S.fill(0); t.B[3] = 1; t.S[2] = 1; t.S[3] = 1;
DefaultTables ==
    [B |-> [Zero9 EXCEPT ![3] = 1],
     S |-> [Zero9 EXCEPT ![2] = 1, ![3] = 1],
     cerr |-> <<>>]

\* A parser without the fallback to the default rule.
parse_rulestring_no_default(s) ==
    LET r == Strip(s)
        posB == find_first_of(r, BMarkers)
        posS == find_first_of(r, SMarkers)
        a0 == [arr |-> Zero9, invalidFound |-> FALSE, invalidChars |-> <<>>]
        rb == IF posB # npos THEN fillDigits(r, posB + 1, a0) ELSE a0
        s0 == [rb EXCEPT !.arr = Zero9]
        rs == IF posS # npos THEN fillDigits(r, posS + 1, s0) ELSE s0
    IN  [B |-> rb.arr,
         S |-> rs.arr,
         cerr |-> IF rs.invalidFound
                  THEN << <<"Warning: digits >8 ignored in rulestring: ">>
                          \o JoinComma(rs.invalidChars) >>
                  ELSE <<>>]

parse_rulestring(s) ==
    LET r == Strip(s)
        posB == find_first_of(r, BMarkers)
        posS == find_first_of(r, SMarkers)
        a0 == [arr |-> Zero9, invalidFound |-> FALSE, invalidChars |-> <<>>]
        rb == IF posB # npos THEN fillDigits(r, posB + 1, a0) ELSE a0
        s0 == [rb EXCEPT !.arr = Zero9]
        rs == IF posS # npos THEN fillDigits(r, posS + 1, s0) ELSE s0
    IN  IF posB = npos /\ posS = npos THEN DefaultTables
        ELSE [B |-> rb.arr,
              S |-> rs.arr,
              cerr |-> IF rs.invalidFound
                       THEN << <<"Warning: digits >8 ignored in rulestring: ">>
                               \o JoinComma(rs.invalidChars) >>
                       ELSE <<>>]

(***************************************************************************)
(* Runs of the parser: a rulestring is chosen, separators may be inserted  *)
(* and the case of marker letters changed, then it is parsed.              *)
(***************************************************************************)
RuleAlphabet == {"B", "S", "/", "3", "9", "x"}

RECURSIVE StringsUpTo(_)
StringsUpTo(n) ==
    IF n = 0 THEN {<<>>}
    ELSE LET shorter == StringsUpTo(n - 1)
         IN  shorter \cup {Append(q, c) : q \in shorter, c \in RuleAlphabet}

\* Rulestrings named by the documentation.
NamedRules ==
    { <<>>,
      <<"B", "3", "/", "S", "2", "3">>,
      <<"b", "3", "/", "s", "2", "3">>,
      <<"B", "3", " ", "/", " ", "S", "2", "3">>,
      <<"B", ",", "3", "/", "S", ",", "2", ",", "3">>,
      <<"B", "3", "9", "/", "S", "2", "3">>,
      <<"B", "0", "2", "8", "/", "S", "0", "1", "2", "4">>,
      <<"B", "3", "6", "/", "S", "2", "3">> }

InitParse ==
    /\ rule \in NamedRules \cup StringsUpTo(MaxRuleLen)
    /\ origin = rule
    /\ nedits = 0
    /\ tables = NoTables
    /\ pc = "input"
    /\ err = <<>>
    /\ prog = "custom"
    /\ gWidth = 0
    /\ gHeight = 0
    /\ steps = -1
    /\ draw_enabled = TRUE
    /\ threads = -1
    /\ argFail = <<>>
    /\ mem = [cur |-> NoGrid, nxt |-> NoGrid]
    /\ iter = 0
    /\ team = 0
    /\ widx = <<>>
    /\ exitCode = -1
    /\ cur0 = NoGrid
    /\ nxt0 = NoGrid
    /\ rdBufs = {}
    /\ wrBufs = {}
    /\ wrLog = <<>>
    /\ init0 = NoGrid

InsertAt(q, i, c) == SubSeq(q, 1, i) \o <<c>> \o SubSeq(q, i + 1, Len(q))

SwapCase(c) ==
    IF c = "B" THEN "b" ELSE IF c = "b" THEN "B"
    ELSE IF c = "S" THEN "s" ELSE IF c = "s" THEN "S" ELSE c

\* A space or a comma is inserted somewhere in the rulestring.
InsertSeparator ==
    /\ pc = "input"
    /\ nedits < MaxEdits
    /\ \E i \in 0..Len(rule), c \in {" ", ","} : rule' = InsertAt(rule, i, c)
    /\ nedits' = nedits + 1
    /\ UNCHANGED <<origin, tables, pc, err>>
    /\ UNCHANGED dvars

\* The case of one marker letter is changed.
ChangeCase ==
    /\ pc = "input"
    /\ nedits < MaxEdits
    /\ \E i \in 1..Len(rule) :
          /\ rule[i] \in {"B", "b", "S", "s"}
          /\ rule' = [rule EXCEPT ![i] = SwapCase(@)]
    /\ nedits' = nedits + 1
    /\ UNCHANGED <<origin, tables, pc, err>>
    /\ UNCHANGED dvars

\* RuleTables t = parse_rulestring(rule);
Parse ==
    /\ pc = "input"
    /\ LET t == parse_rulestring(rule)
       IN  /\ tables' = [B |-> t.B, S |-> t.S]
           /\ err' = err \o t.cerr
    /\ pc' = "parsed"
    /\ UNCHANGED <<rule, origin, nedits>>
    /\ UNCHANGED dvars

NextParse ==
    \/ InsertSeparator
    \/ ChangeCase
    \/ Parse

SpecParse == InitParse /\ [][NextParse]_vars

(***************************************************************************)
(* Initial states: main is parsing the command line.  The options have    *)
(* the values the arguments give them; argFail is the exception std::stoi  *)
(* or std::stod throws on a value that is not a number or does not fit.    *)
(***************************************************************************)
\* What the runtime writes to std::cerr when the exception reaches
\* std::terminate.
ArgFailures ==
    { <<"terminate called after throwing an instance of 'std::invalid_argument'",
        "  what():  stoi">>,
      <<"terminate called after throwing an instance of 'std::out_of_range'",
        "  what():  stoi">>,
      <<"terminate called after throwing an instance of 'std::invalid_argument'",
        "  what():  stod">>,
      <<"terminate called after throwing an instance of 'std::out_of_range'",
        "  what():  stod">> }

Init ==
    /\ prog \in {"seq", "par"}
    /\ gWidth \in (-1)..MaxW
    /\ gHeight \in (-1)..MaxH
    /\ gWidth * gHeight <= MaxCells
    /\ steps \in (-1)..MaxSteps
    /\ draw_enabled \in BOOLEAN
    /\ threads \in IF prog = "par" THEN {-1} \cup 1..MaxThreads ELSE {-1}
    /\ argFail \in {<<>>} \cup ArgFailures
    /\ pc = "start"
    /\ mem = [cur |-> NoGrid, nxt |-> NoGrid]
    /\ iter = 0
    /\ team = 0
    /\ widx = <<>>
    /\ exitCode = -1
    /\ err = <<>>
    /\ cur0 = NoGrid
    /\ nxt0 = NoGrid
    /\ rdBufs = {}
    /\ wrBufs = {}
    /\ wrLog = <<>>
    /\ init0 = NoGrid
    /\ rule = <<>>
    /\ origin = <<>>
    /\ nedits = 0
    /\ tables = NoTables

(***************************************************************************)
(* main: dimension check, construction of the grids, random_init.          *)
(***************************************************************************)
DimsInvalidStrict == gWidth < 0 \/ gHeight < 0

DimsInvalid == gWidth <= 0 \/ gHeight <= 0

\* std::stoi / std::stod throws, nothing catches it: std::terminate, the
\* process is killed by SIGABRT (status 134) and main never returns.
ArgsAbort ==
    /\ pc = "start"
    /\ argFail # <<>>
    /\ err' = err \o argFail
    /\ exitCode' = 134
    /\ pc' = "aborted"
    /\ UNCHANGED <<prog, gWidth, gHeight, steps, draw_enabled, threads, argFail, mem, iter,
                   team, widx, cur0, nxt0, rdBufs, wrBufs, wrLog, init0>>
    /\ UNCHANGED pvars

RejectDims ==
    /\ pc = "start"
    /\ argFail = <<>>
    /\ DimsInvalid
    /\ err' = Append(err, "Invalid dimensions")
    /\ exitCode' = 1
    /\ pc' = "exit"
    /\ UNCHANGED <<prog, gWidth, gHeight, steps, draw_enabled, threads, argFail, mem, iter,
                   team, widx, cur0, nxt0, rdBufs, wrBufs, wrLog, init0>>
    /\ UNCHANGED pvars

\* Grid cur(h, row(w, 0)); Grid nxt = cur; random_init(cur, prob);
Construct ==
    /\ pc = "start"
    /\ argFail = <<>>
    /\ ~DimsInvalid
    /\ \E g \in AllGrids(gHeight, gWidth) :
          /\ Population(g, gHeight, gWidth) <= MaxLive
          /\ mem' = [cur |-> g, nxt |-> ZeroGrid(gHeight, gWidth)]
          /\ init0' = g
    /\ pc' = IF ~draw_enabled /\ steps > 0 THEN "bench" ELSE "loop"
    /\ UNCHANGED <<prog, gWidth, gHeight, steps, draw_enabled, threads, argFail, iter,
                   team, widx, exitCode, err, cur0, nxt0, rdBufs, wrBufs, wrLog>>
    /\ UNCHANGED pvars

\* Loop conditions of the benchmark loop and of the animation loop.
\* Loop conditions that admit one iteration too many.
MoreStepsInclusive ==
    IF pc = "bench" THEN iter <= steps ELSE (steps < 0 \/ iter <= steps)

MoreSteps ==
    IF pc = "bench" THEN iter < steps ELSE (steps < 0 \/ iter < steps)

\* The loop is left: return 0.
Finish ==
    /\ pc \in {"bench", "loop"}
    /\ ~MoreSteps
    /\ exitCode' = 0
    /\ pc' = "exit"
    /\ UNCHANGED <<prog, gWidth, gHeight, steps, draw_enabled, threads, argFail, mem, iter,
                   team, widx, err, cur0, nxt0, rdBufs, wrBufs, wrLog, init0>>
    /\ UNCHANGED pvars

(***************************************************************************)
(* step of the sequential executable: the whole call.                      *)
(***************************************************************************)
SeqStep ==
    /\ prog = "seq"
    /\ pc \in {"bench", "loop"}
    /\ MoreSteps
    /\ iter < MaxIter
    /\ mem' = [cur |-> SeqLoop("seq", cur, nxt, 0), nxt |-> cur]
    /\ iter' = iter + 1
    /\ cur0' = cur
    /\ nxt0' = nxt
    /\ UNCHANGED <<prog, gWidth, gHeight, steps, draw_enabled, threads, argFail, pc,
                   team, widx, exitCode, err, rdBufs, wrBufs, wrLog, init0>>
    /\ UNCHANGED pvars

(***************************************************************************)
(* step of the parallel executable: fork, loop bodies, barrier, swap.      *)
(***************************************************************************)
\* omp_set_num_threads(threads) is a request: the region gets a team of at
\* most that many threads; without it, of at most the platform's maximum.
TeamSizes == IF threads > 0 THEN 1..threads ELSE 1..MaxThreads

Fork ==
    /\ prog = "par"
    /\ pc \in {"bench", "loop"}
    /\ MoreSteps
    /\ iter < MaxIter
    /\ \E T \in TeamSizes :
          /\ team' = T
          /\ widx' = [i \in 0..(T - 1) |-> ChunkStart(gHeight * gWidth, T, i)]
    /\ pc' = IF pc = "bench" THEN "par_bench" ELSE "par_loop"
    /\ cur0' = cur
    /\ nxt0' = nxt
    /\ rdBufs' = {}
    /\ wrBufs' = {}
    /\ wrLog' = [k \in Cells(gHeight, gWidth) |-> [i \in 0..(team' - 1) |-> 0]]
    /\ UNCHANGED <<prog, gWidth, gHeight, steps, draw_enabled, threads, argFail, mem, iter,
                   exitCode, err, init0>>
    /\ UNCHANGED pvars

InRegion == pc \in {"par_bench", "par_loop"}

\* One iteration of the collapsed loop, executed by thread i.
Body(i) ==
    /\ InRegion
    /\ i \in DOMAIN widx
    /\ widx[i] < ChunkEnd(gHeight * gWidth, team, i)
    /\ LET k == widx[i]
           y == k \div gWidth
           x == k % gWidth
       IN  /\ mem' = [mem EXCEPT ![WriteBuf][y][x] = NextCell(prog, mem[ReadBuf], y, x)]
           /\ wrLog' = [wrLog EXCEPT ![k][i] = @ + 1]
    /\ widx' = [widx EXCEPT ![i] = @ + 1]
    /\ rdBufs' = rdBufs \cup {ReadBuf}
    /\ wrBufs' = wrBufs \cup {WriteBuf}
    /\ UNCHANGED <<prog, gWidth, gHeight, steps, draw_enabled, threads, argFail, pc, iter,
                   team, exitCode, err, cur0, nxt0, init0>>
    /\ UNCHANGED pvars

\* Without the implicit barrier the master would leave the region at once.
AllDoneNoWait == TRUE

AllDone == \A i \in DOMAIN widx : widx[i] >= ChunkEnd(gHeight * gWidth, team, i)

\* The implicit barrier that ends the parallel loop.
Barrier ==
    /\ InRegion
    /\ AllDone
    /\ pc' = IF pc = "par_bench" THEN "swap_bench" ELSE "swap_loop"
    /\ UNCHANGED <<prog, gWidth, gHeight, steps, draw_enabled, threads, argFail, mem, iter,
                   team, widx, exitCode, err, cur0, nxt0, rdBufs, wrBufs, wrLog, init0>>
    /\ UNCHANGED pvars

AtSwap == pc \in {"swap_bench", "swap_loop"}

\* cur = nxt: the new generation is copied and the old one is lost.
SwapByCopy ==
    /\ AtSwap
    /\ mem' = [cur |-> nxt, nxt |-> nxt]
    /\ iter' = iter + 1
    /\ team' = 0
    /\ widx' = <<>>
    /\ wrLog' = <<>>
    /\ rdBufs' = {}
    /\ wrBufs' = {}
    /\ pc' = IF pc = "swap_bench" THEN "bench" ELSE "loop"
    /\ UNCHANGED <<prog, gWidth, gHeight, steps, draw_enabled, threads, argFail,
                   exitCode, err, cur0, nxt0, init0>>
    /\ UNCHANGED pvars

\* cur.swap(nxt), by the calling thread; step returns and the team is gone.
Swap ==
    /\ AtSwap
    /\ mem' = [cur |-> nxt, nxt |-> cur]
    /\ iter' = iter + 1
    /\ team' = 0
    /\ widx' = <<>>
    /\ wrLog' = <<>>
    /\ rdBufs' = {}
    /\ wrBufs' = {}
    /\ pc' = IF pc = "swap_bench" THEN "bench" ELSE "loop"
    /\ UNCHANGED <<prog, gWidth, gHeight, steps, draw_enabled, threads, argFail,
                   exitCode, err, cur0, nxt0, init0>>
    /\ UNCHANGED pvars

(***************************************************************************)
(* Runs of the sequential executable started from a hand-placed pattern    *)
(* (manual_init, or one outcome of random_init) instead of a random grid.  *)
(***************************************************************************)
\* The grid whose live cells are exactly the set L of <<y, x>> pairs.
GridOf(h, w, L) ==
    [y \in 0..(h - 1) |-> [x \in 0..(w - 1) |-> IF <<y, x>> \in L THEN 1 ELSE 0]]

\* 2x2 block with top-left corner (r,c), wrapping at the edges.
BlockCells(h, w, r, c) ==
    {<<r, c>>, <<r, (c + 1) % w>>, <<(r + 1) % h, c>>, <<(r + 1) % h, (c + 1) % w>>}

\* Three in a row / in a column, centred on (r,c), wrapping at the edges.
RowCells(h, w, r, c) == {<<r, (c + w - 1) % w>>, <<r, c>>, <<r, (c + 1) % w>>}
ColCells(h, w, r, c) == {<<(r + h - 1) % h, c>>, <<r, c>>, <<(r + 1) % h, c>>}

BlockGrids(h, w) ==
    {GridOf(h, w, BlockCells(h, w, r, c)) : r \in 0..(h - 1), c \in 0..(w - 1)}

RowGrids(h, w) ==
    {GridOf(h, w, RowCells(h, w, r, c)) : r \in 0..(h - 1), c \in 0..(w - 1)}

InitPattern ==
    /\ prog = "seq"
    /\ gWidth \in 4..MaxPatDim
    /\ gHeight \in 4..MaxPatDim
    /\ steps \in (-1)..MaxSteps
    /\ draw_enabled \in BOOLEAN
    /\ threads = -1
    /\ argFail \in {<<>>} \cup ArgFailures
    /\ pc = "start"
    /\ mem = [cur |-> NoGrid, nxt |-> NoGrid]
    /\ iter = 0
    /\ team = 0
    /\ widx = <<>>
    /\ exitCode = -1
    /\ err = <<>>
    /\ cur0 = NoGrid
    /\ nxt0 = NoGrid
    /\ rdBufs = {}
    /\ wrBufs = {}
    /\ wrLog = <<>>
    /\ init0 = NoGrid
    /\ rule = <<>>
    /\ origin = <<>>
    /\ nedits = 0
    /\ tables = NoTables

\* Grid cur(h, row(w, 0)); Grid nxt = cur; then the initialiser leaves g in cur.
ConstructFrom(G) ==
    /\ pc = "start"
    /\ argFail = <<>>
    /\ ~DimsInvalid
    /\ \E g \in G :
          /\ mem' = [cur |-> g, nxt |-> ZeroGrid(gHeight, gWidth)]
          /\ init0' = g
    /\ pc' = IF ~draw_enabled /\ steps > 0 THEN "bench" ELSE "loop"
    /\ UNCHANGED <<prog, gWidth, gHeight, steps, draw_enabled, threads, argFail, iter,
                   team, widx, exitCode, err, cur0, nxt0, rdBufs, wrBufs, wrLog>>
    /\ UNCHANGED pvars

ConstructBlock == ConstructFrom(BlockGrids(gHeight, gWidth))

ConstructRow == ConstructFrom(RowGrids(gHeight, gWidth))

NextPattern ==
    \/ ArgsAbort
    \/ ConstructBlock
    \/ ConstructRow
    \/ SeqStep
    \/ Finish

SpecPattern == InitPattern /\ [][NextPattern]_vars

Next ==
    \/ ArgsAbort
    \/ RejectDims
    \/ Construct
    \/ Finish
    \/ SeqStep
    \/ Fork
    \/ \E i \in 0..(MaxThreads - 1) : Body(i)
    \/ Barrier
    \/ Swap

Spec == Init /\ [][Next]_vars

(***************************************************************************)
(* Helpers for the properties.                                             *)
(***************************************************************************)
RECURSIVE SumTo(_, _)
SumTo(f, n) == IF n < 0 THEN 0 ELSE f[n] + SumTo(f, n - 1)

\* Number of writes cell k of the write buffer received in the current pass.
Writes(k) == SumTo(wrLog[k], team - 1)

Writers(k) == {i \in DOMAIN wrLog[k] : wrLog[k][i] > 0}

CellY(k) == k \div gWidth
CellX(k) == k % gWidth

Par == prog = "par"

AtLoopHead == pc \in {"bench", "loop"}

\* a is congruent to b modulo m (for |a - b| <= m)
Cong(a, b, m) == \E j \in (-1)..1 : a - b = j * m

\* How many of the offsets -1, 0, 1 lead from index a to index b modulo m.
Reach(a, b, m) == Cardinality({d \in (-1)..1 : Cong(a + d, b, m)})

\* How many of the 8 offsets lead from (y,x) to (r,c) on the torus: all 9
\* combinations, less the offset (0,0), which leads to (y,x) itself.
Mult(y, x, r, c) ==
    Reach(y, r, gHeight) * Reach(x, c, gWidth) - (IF r = y /\ c = x THEN 1 ELSE 0)

RECURSIVE TorusSum(_, _, _, _)
TorusSum(g, y, x, k) ==
    IF k < 0 THEN 0
    ELSE (IF g[CellY(k)][CellX(k)] = 0 THEN 0
          ELSE g[CellY(k)][CellX(k)] * Mult(y, x, CellY(k), CellX(k)))
         + TorusSum(g, y, x, k - 1)

IsGrid(g) == g # NoGrid /\ gHeight > 0 /\ gWidth > 0

(***************************************************************************)
(* C1: when the parallel loop has finished (any team size, any             *)
(* interleaving of the loop bodies), the next grid equals the grid the     *)
(* sequential row-major loop computes from the grid the pass started with; *)
(* after the swap it is the current grid.                                  *)
(***************************************************************************)
C1_ParallelEqualsSequential ==
    Par =>
      /\ AtSwap => nxt = SeqLoop("par", cur0, ZeroGrid(gHeight, gWidth), 0)
      /\ (AtLoopHead /\ iter > 0) =>
            cur = SeqLoop("par", cur0, ZeroGrid(gHeight, gWidth), 0)

C1_Witness ==
    /\ Par /\ AtSwap /\ team >= 2 /\ iter = 1
    /\ gHeight = 3 /\ gWidth = 3
    /\ \E k1, k2 \in Cells(gHeight, gWidth) :
          /\ nxt[CellY(k1)][CellX(k1)] = 1
          /\ nxt[CellY(k2)][CellX(k2)] = 0
          /\ Writers(k1) # Writers(k2)

(***************************************************************************)
(* C2: during a pass every read is from the current grid and every write   *)
(* goes to the next grid, so nothing written in the pass is read in it:    *)
(* every cell written so far holds the value computed from the grid the    *)
(* pass started with, and the current grid stays as it was until the pass  *)
(* (barrier included) is over.                                             *)
(***************************************************************************)
C2_ReadCurWriteNxt ==
    (Par /\ (InRegion \/ AtSwap)) =>
      /\ rdBufs \subseteq {"cur"}
      /\ wrBufs \subseteq {"nxt"}
      /\ rdBufs \cap wrBufs = {}
      /\ cur = cur0
      /\ \A k \in Cells(gHeight, gWidth) :
            Writes(k) > 0 =>
               nxt[CellY(k)][CellX(k)] = NextCell("par", cur0, CellY(k), CellX(k))

C2_Witness ==
    /\ Par /\ InRegion /\ team >= 2
    /\ rdBufs = {"cur"} /\ wrBufs = {"nxt"}
    /\ \E k1, k2 \in Cells(gHeight, gWidth) :
          /\ Writes(k1) > 0
          /\ nxt[CellY(k1)][CellX(k1)] # cur[CellY(k1)][CellX(k1)]
          /\ Writes(k2) = 0
          /\ Mult(CellY(k2), CellX(k2), CellY(k1), CellX(k1)) > 0

(***************************************************************************)
(* C3: in every pass each cell of the next grid is written at most once    *)
(* while the loop runs and exactly once, by exactly one thread, when it    *)
(* has finished; the threads' chunks are pairwise disjoint and cover the   *)
(* whole iteration space.                                                  *)
(***************************************************************************)
Chunk(i) ==
    ChunkStart(gHeight * gWidth, team, i)..(ChunkEnd(gHeight * gWidth, team, i) - 1)

C3_DisjointCover ==
    (Par /\ team > 0) =>
      /\ \A k \in Cells(gHeight, gWidth) :
            /\ Writes(k) <= 1
            /\ AtSwap => (Writes(k) = 1 /\ Cardinality(Writers(k)) = 1)
      /\ AtSwap =>
            /\ \A i, j \in 0..(team - 1) : i # j => Chunk(i) \cap Chunk(j) = {}
            /\ UNION {Chunk(i) : i \in 0..(team - 1)} = Cells(gHeight, gWidth)

C3_Witness ==
    /\ Par /\ AtSwap /\ team = 2
    /\ gHeight * gWidth = 9
    /\ Cardinality(UNION {Writers(k) : k \in Cells(gHeight, gWidth)}) = 2
    /\ \A k \in Cells(gHeight, gWidth) : Writes(k) = 1

(***************************************************************************)
(* C4: passes are strictly sequential.  The buffers change roles only by   *)
(* the calling thread's swap, taken after the barrier when every thread    *)
(* has finished its chunk and every cell has been written; loop bodies run *)
(* only inside the parallel region; and a pass begins only from the loop   *)
(* head, with the grid the previous pass produced as the current grid.     *)
(***************************************************************************)
Quiescent ==
    \A i \in DOMAIN widx :
        widx[i] = ChunkStart(gHeight * gWidth, team, i)
                  + (gHeight * gWidth) \div team
                  + (IF i < (gHeight * gWidth) % team THEN 1 ELSE 0)

PassComplete ==
    /\ team > 0
    /\ Quiescent
    /\ \A k \in Cells(gHeight, gWidth) : Writes(k) = 1

C4_PassesSequential ==
    [][ Par =>
          /\ (iter' # iter) =>
                /\ AtSwap /\ PassComplete
                /\ iter' = iter + 1
                /\ cur' = nxt /\ nxt' = cur
                /\ AtLoopHead'
          /\ (AtSwap /\ iter' = iter) => UNCHANGED vars
          /\ ((mem' # mem /\ iter' = iter /\ pc # "start") \/ rdBufs' \notin {rdBufs, {}}) =>
                (InRegion /\ InRegion')
          /\ (~InRegion /\ InRegion') =>
                /\ AtLoopHead /\ mem' = mem /\ cur0' = cur
                /\ iter > 0 => (nxt = cur0 /\ team = 0)
          /\ (InRegion /\ ~InRegion') => (AtSwap' /\ PassComplete /\ mem' = mem)
      ]_vars

C4_Witness ==
    /\ Par /\ InRegion /\ iter = 1 /\ team >= 2
    /\ cur = cur0 /\ nxt # cur0
    /\ \E k1, k2 \in Cells(gHeight, gWidth) : Writes(k1) = 1 /\ Writes(k2) = 0

(***************************************************************************)
(* C5: neighbor_count is toroidal.  For every cell it equals the sum over  *)
(* all cells of the grid of the cell's value times the number of the 8     *)
(* offsets that reach it modulo the dimensions; a live cell in the last    *)
(* row and column is counted for (0,0), and the cell across each of the    *)
(* four edges is counted.                                                  *)
(***************************************************************************)
ToroidalOn(g) ==
    /\ \A y \in 0..(gHeight - 1), x \in 0..(gWidth - 1) :
          /\ neighbor_count(g, y, x) = TorusSum(g, y, x, gHeight * gWidth - 1)
          /\ neighbor_count(g, y, x) \in 0..8
    /\ g[gHeight - 1][gWidth - 1] = 1 => neighbor_count(g, 0, 0) >= 1
    /\ g[0][0] = 1 => neighbor_count(g, gHeight - 1, gWidth - 1) >= 1
    /\ \A x \in 0..(gWidth - 1) :
          /\ g[gHeight - 1][x] = 1 => neighbor_count(g, 0, x) >= 1
          /\ g[0][x] = 1 => neighbor_count(g, gHeight - 1, x) >= 1
    /\ \A y \in 0..(gHeight - 1) :
          /\ g[y][gWidth - 1] = 1 => neighbor_count(g, y, 0) >= 1
          /\ g[y][0] = 1 => neighbor_count(g, y, gWidth - 1) >= 1

C5_Toroidal ==
    (IsGrid(cur) /\ AtLoopHead) => ToroidalOn(cur)

\* One live cell in the far corner of a 3x3 grid: the pass has counted it
\* for (0,0), which therefore is not born under B028 (a count of 0 would
\* have given birth).
C5_Witness ==
    /\ Par /\ AtLoopHead /\ iter = 1
    /\ gHeight = 3 /\ gWidth = 3
    /\ cur0[2][2] = 1 /\ Population(cur0, 3, 3) = 1
    /\ neighbor_count(cur0, 0, 0) = 1
    /\ cur[0][0] = 0

(***************************************************************************)
(* C6 (SpecParse): the empty rulestring and "B3/S23" both parse to         *)
(* Birth = {3}, Survive = {2,3}, and with the parsed tables the table      *)
(* formula gives, for a dead and for a live cell and every neighbour count *)
(* 0..8, the next state of the default sequential rule: alive iff the      *)
(* count is 3, or the cell is alive and the count is 2.                    *)
(***************************************************************************)
IsDefaultRuleText(q) == q = <<>> \/ q = <<"B", "3", "/", "S", "2", "3">>

C6_DefaultRuleEquivalence ==
    (pc = "parsed" /\ IsDefaultRuleText(rule)) =>
      /\ \A n \in 0..8 : (tables.B[n] = 1) <=> (n = 3)
      /\ \A n \in 0..8 : (tables.S[n] = 1) <=> (n \in {2, 3})
      /\ DOMAIN tables.B = 0..8 /\ DOMAIN tables.S = 0..8
      /\ \A c \in {0, 1}, n \in 0..8 :
            /\ TableRule(tables.B, tables.S, c, n) = ConwayRule(c, n)
            /\ (ConwayRule(c, n) = 1) <=> ((c = 1 /\ n \in {2, 3}) \/ (c = 0 /\ n = 3))

C6_Witness ==
    /\ pc = "parsed" /\ rule = <<>> /\ nedits = 0
    /\ tables.B[3] = 1 /\ tables.S[2] = 1 /\ tables.S[3] = 1
    /\ TableRule(tables.B, tables.S, 1, 3) = 1

(***************************************************************************)
(* C7 (SpecPattern): under the default rule a 2x2 block on an otherwise    *)
(* dead torus of at least 4x4 cells, wherever it lies (also across the     *)
(* wrap edges), is a still life: after every number of steps the current   *)
(* grid is the initial grid.                                               *)
(***************************************************************************)
C7_BlockStill ==
    (init0 # NoGrid /\ init0 \in BlockGrids(gHeight, gWidth)) => cur = init0

C7_Witness ==
    /\ iter = 2
    /\ init0 = GridOf(gHeight, gWidth, BlockCells(gHeight, gWidth, gHeight - 1, gWidth - 1))
    /\ cur = init0
    /\ cur[0][0] = 1 /\ cur[gHeight - 1][gWidth - 1] = 1
    /\ Population(cur, gHeight, gWidth) = 4

(***************************************************************************)
(* C8 (SpecPattern): under the default rule three live cells in a row on   *)
(* an otherwise dead grid become the three in a column centred on the same *)
(* cell after an odd number of steps and the initial grid again after an   *)
(* even number of steps: the pattern has period exactly 2.                 *)
(***************************************************************************)
C8_Blinker ==
    \A r \in 0..(gHeight - 1), c \in 0..(gWidth - 1) :
        (init0 # NoGrid /\ init0 = GridOf(gHeight, gWidth, RowCells(gHeight, gWidth, r, c))) =>
           /\ iter % 2 = 1 => cur = GridOf(gHeight, gWidth, ColCells(gHeight, gWidth, r, c))
           /\ iter % 2 = 0 => cur = init0
           /\ GridOf(gHeight, gWidth, ColCells(gHeight, gWidth, r, c)) # init0

C8_Witness ==
    /\ iter = 2
    /\ init0 = GridOf(gHeight, gWidth, RowCells(gHeight, gWidth, 2, 2))
    /\ cur = init0
    /\ nxt = GridOf(gHeight, gWidth, ColCells(gHeight, gWidth, 2, 2))
    /\ nxt[1][2] = 1 /\ nxt[3][2] = 1 /\ nxt[2][1] = 0

(***************************************************************************)
(* C9: a non-positive width or height is a configuration error in both     *)
(* executables: no grid is ever constructed and no step ever runs.  When   *)
(* the command line has parsed, the only step main can take is the         *)
(* rejection, and it ends the run with "Invalid dimensions" on the error   *)
(* stream and exit status 1; when an option value does not parse, the run  *)
(* is aborted instead, also with an error report and a non-zero status.    *)
(***************************************************************************)
C9_DimsRejected ==
    (gWidth <= 0 \/ gHeight <= 0) =>
      /\ cur = NoGrid /\ nxt = NoGrid
      /\ iter = 0 /\ team = 0
      /\ ~ENABLED Construct
      /\ argFail = <<>> =>
            /\ pc \in {"start", "exit"}
            /\ pc = "start" => (ENABLED RejectDims /\ ~ENABLED ArgsAbort)
            /\ pc = "exit" => (exitCode = 1 /\ err = <<"Invalid dimensions">>)
      /\ argFail # <<>> =>
            /\ pc \in {"start", "aborted"}
            /\ pc = "start" => (ENABLED ArgsAbort /\ ~ENABLED RejectDims)
            /\ pc = "aborted" => (exitCode \notin {-1, 0} /\ err = argFail)

C9_Witness ==
    /\ argFail = <<>>
    /\ gWidth = 0 /\ gHeight > 0
    /\ pc = "exit" /\ exitCode = 1
    /\ err = <<"Invalid dimensions">>
    /\ cur = NoGrid

(***************************************************************************)
(* C10 (SpecParse): inserting spaces or commas anywhere in a rulestring,   *)
(* or changing the case of its B/S letters, changes neither the tables nor *)
(* the diagnostics; "b3/s23", "B3 / S23" and "B,3/S,2,3" parse to the      *)
(* tables of "B3/S23".                                                     *)
(***************************************************************************)
C10_SeparatorsAndCase ==
    pc = "parsed" =>
      /\ tables.B = parse_rulestring(origin).B
      /\ tables.S = parse_rulestring(origin).S
      /\ err = parse_rulestring(origin).cerr
      /\ rule \in { <<"b", "3", "/", "s", "2", "3">>,
                    <<"B", "3", " ", "/", " ", "S", "2", "3">>,
                    <<"B", ",", "3", "/", "S", ",", "2", ",", "3">> } =>
            /\ tables.B = parse_rulestring(<<"B", "3", "/", "S", "2", "3">>).B
            /\ tables.S = parse_rulestring(<<"B", "3", "/", "S", "2", "3">>).S
            /\ tables.B = [Zero9 EXCEPT ![3] = 1]
            /\ tables.S = [Zero9 EXCEPT ![2] = 1, ![3] = 1]

C10_Witness ==
    /\ pc = "parsed" /\ nedits = 1
    /\ origin = <<"B", "9", "S">>
    /\ rule = <<"b", "9", "S">>
    /\ tables.B = Zero9 /\ tables.S = Zero9
    /\ err # <<>>

(***************************************************************************)
(* Helpers for the parser properties, written from the rulestring format   *)
(* and not from the scanning loop: the cleaned string, the 1-based         *)
(* position of the first marker of a set (0 if none), and the positions    *)
(* that lie after that marker and before the next marker character.        *)
(***************************************************************************)
Cleaned(q) == SelectSeq(q, LAMBDA c : c \notin {" ", ","})

FirstMarker(r, M) ==
    IF \E i \in 1..Len(r) : r[i] \in M
    THEN CHOOSE i \in 1..Len(r) :
            r[i] \in M /\ \A j \in 1..(i - 1) : r[j] \notin M
    ELSE 0

Section(r, M) ==
    LET p == FirstMarker(r, M)
    IN  IF p = 0 THEN {}
        ELSE {j \in (p + 1)..Len(r) :
                 \A m \in (p + 1)..j : r[m] \notin {"/", "B", "b", "S", "s"}}

ValidDigit(d) == <<"0", "1", "2", "3", "4", "5", "6", "7", "8">>[d + 1]

DigitsIn(r, M) == {d \in 0..8 : \E j \in Section(r, M) : r[j] = ValidDigit(d)}

TableOf(D) == [n \in 0..8 |-> IF n \in D THEN 1 ELSE 0]

Without9(q) == SelectSeq(q, LAMBDA c : c # "9")

WarningOf9 == << <<"Warning: digits >8 ignored in rulestring: ", "9">> >>

(***************************************************************************)
(* C11 (SpecParse): an invalid digit is rejected without aborting.         *)
(* "B39/S23" parses to Birth={3}, Survive={2,3} with one diagnostic that   *)
(* mentions 9.  In general a 9 in a scanned section sets no table entry    *)
(* (the tables are those of the string without its 9s), valid digits that  *)
(* follow it in the section are still set, at most one diagnostic is       *)
(* emitted and it lists the invalid character once, and a diagnostic is    *)
(* emitted exactly when a 9 lies in a scanned section.                     *)
(***************************************************************************)
C11_InvalidDigitSkipped ==
    pc = "parsed" =>
      LET r == Cleaned(rule)
          secB == Section(r, {"B", "b"})
          secS == Section(r, {"S", "s"})
          nines == {j \in secB \cup secS : r[j] = "9"}
      IN  /\ rule = <<"B", "3", "9", "/", "S", "2", "3">> =>
                /\ tables.B = TableOf({3})
                /\ tables.S = TableOf({2, 3})
                /\ err = WarningOf9
          /\ DOMAIN tables.B = 0..8 /\ DOMAIN tables.S = 0..8
          /\ tables.B = parse_rulestring(Without9(rule)).B
          /\ tables.S = parse_rulestring(Without9(rule)).S
          /\ \A j \in secB :
                (\E k \in nines : k < j) =>
                   \A d \in 0..8 : r[j] = ValidDigit(d) => tables.B[d] = 1
          /\ \A j \in secS :
                (\E k \in nines : k < j) =>
                   \A d \in 0..8 : r[j] = ValidDigit(d) => tables.S[d] = 1
          /\ Len(err) <= 1
          /\ (err # <<>>) <=> (nines # {})
          /\ err # <<>> => err = WarningOf9

C11_Witness ==
    /\ pc = "parsed"
    /\ rule = <<"B", "9", "3">>
    /\ tables.B = TableOf({3}) /\ tables.S = TableOf({})
    /\ err = WarningOf9

(***************************************************************************)
(* C12 (SpecParse): when the rulestring has a B or an S marker, Birth[d]   *)
(* (Survive[d]) is set exactly for the digits d in 0..8 that occur in the  *)
(* cleaned string after the first B/b (S/s) marker and before the next     *)
(* marker character or the end; other characters in a section are skipped, *)
(* and a section whose marker is absent gives an all-false table.          *)
(***************************************************************************)
C12_TablesFromSections ==
    LET r == Cleaned(rule)
    IN  (pc = "parsed" /\ \E i \in 1..Len(r) : r[i] \in {"B", "b", "S", "s"}) =>
          /\ tables.B = TableOf(DigitsIn(r, {"B", "b"}))
          /\ tables.S = TableOf(DigitsIn(r, {"S", "s"}))
          /\ FirstMarker(r, {"B", "b"}) = 0 => tables.B = TableOf({})
          /\ FirstMarker(r, {"S", "s"}) = 0 => tables.S = TableOf({})

C12_Witness ==
    /\ pc = "parsed"
    /\ rule = <<"B", "x", "3">>
    /\ tables.B = TableOf({3}) /\ tables.S = TableOf({})

(***************************************************************************)
(* C13 (SpecParse): a rulestring without any B/b or S/s marker parses to   *)
(* the default rule Birth={3}, Survive={2,3}, whatever else it contains,   *)
(* and no diagnostic is emitted.                                           *)
(***************************************************************************)
C13_NoMarkerDefault ==
    (pc = "parsed" /\ \A i \in 1..Len(rule) : rule[i] \notin {"B", "b", "S", "s"}) =>
      /\ tables.B = TableOf({3})
      /\ tables.S = TableOf({2, 3})
      /\ err = <<>>

C13_Witness ==
    /\ pc = "parsed"
    /\ rule = <<"9", "/", "3">>
    /\ tables.B = TableOf({3}) /\ tables.S = TableOf({2, 3})
    /\ err = <<>>

(***************************************************************************)
(* C14 (SpecParse): the tables hard-coded in the Invertamaze step equal,   *)
(* entry by entry, the tables "B028/S0124" parses to, so for every cell    *)
(* value and neighbor count the hard-coded rule and the table-driven rule  *)
(* under that rulestring give the same next value.                         *)
(***************************************************************************)
C14_InvertamazeIsB028S0124 ==
    (pc = "parsed" /\ Cleaned(rule) = <<"B", "0", "2", "8", "/", "S", "0", "1", "2", "4">>) =>
      /\ \A n \in 0..8 : tables.B[n] = InvB[n] /\ tables.S[n] = InvS[n]
      /\ \A c \in {0, 1}, n \in 0..8 :
            TableRule(tables.B, tables.S, c, n) = TableRule(InvB, InvS, c, n)
      /\ err = <<>>

C14_Witness ==
    /\ pc = "parsed"
    /\ rule = <<"B", "0", "2", "8", "/", "S", "0", "1", "2", "4">>
    /\ tables.B = TableOf({0, 2, 8}) /\ tables.S = TableOf({0, 1, 2, 4})
    /\ TableRule(tables.B, tables.S, 0, 0) = 1
    /\ TableRule(tables.B, tables.S, 1, 8) = 0

(***************************************************************************)
(* Helpers for the properties of the stepping loop.                        *)
(***************************************************************************)
\* step has been called and has returned at least once.
Returned == iter > 0 /\ pc \in {"bench", "loop", "exit"}

ValidDims == gWidth > 0 /\ gHeight > 0

Zero == ZeroGrid(gHeight, gWidth)

Ones == OnesGrid(gHeight, gWidth)

\* The grid with the single live cell (r, c).
Unit(r, c) == [Zero EXCEPT ![r][c] = 1]

\* The rule of executable p applied k times to grid g, each generation
\* computed into a cleared buffer.
RECURSIVE Generation(_, _, _)
Generation(p, g, k) ==
    IF k = 0 THEN g ELSE SeqLoop(p, Generation(p, g, k - 1), Zero, 0)

(***************************************************************************)
(* C15: with valid dimensions and --steps N, N >= 0, on a command line     *)
(* whose option values all parse, the driver calls step                    *)
(* exactly N times and then returns 0, with or without --no-draw: it never *)
(* steps beyond N, cannot leave the loop before N steps, must leave it     *)
(* after N, and an exited run has taken exactly N steps.  Without --steps  *)
(* (steps < 0) the loop can never be left and another step is always       *)
(* possible (up to the model's bound on iter).                             *)
(***************************************************************************)
C15_StepsThenExit ==
    (ValidDims /\ argFail = <<>>) =>
      /\ steps >= 0 => iter <= steps
      /\ pc = "exit" => (steps >= 0 /\ iter = steps /\ exitCode = 0)
      /\ pc = "start" =>
            (ENABLED Construct /\ ~ENABLED RejectDims /\ ~ENABLED ArgsAbort)
      /\ pc # "aborted"
      /\ (AtLoopHead /\ steps >= 0 /\ iter < steps) =>
            (~ENABLED Finish /\ ENABLED (SeqStep \/ Fork))
      /\ (AtLoopHead /\ steps >= 0 /\ iter = steps) =>
            (ENABLED Finish /\ ~ENABLED (SeqStep \/ Fork))
      /\ (AtLoopHead /\ steps < 0) =>
            (~ENABLED Finish /\ (iter < MaxIter => ENABLED (SeqStep \/ Fork)))
      /\ steps < 0 => pc # "exit"
      /\ pc = "bench" => (~draw_enabled /\ steps > 0)

C15_Witness ==
    /\ Par /\ ValidDims /\ argFail = <<>>
    /\ ~draw_enabled /\ steps = 1
    /\ pc = "exit" /\ exitCode = 0
    /\ iter = 1
    /\ cur # init0

(***************************************************************************)
(* C16: the grid step leaves in cur does not depend on what the write      *)
(* buffer held when step was called.  The result of every step of a run,   *)
(* computed over the stale buffer the run really had, equals the result    *)
(* computed from the same current grid over other starting contents of    *)
(* the write buffer (all dead, all alive, the stale buffer itself); in the *)
(* parallel executable every cell of nxt has been written, and nxt has not *)
(* been read, when the loop has finished.                                  *)
(***************************************************************************)
StaleSamples == {Zero, Ones, nxt0}

C16_StaleNxtIrrelevant ==
    /\ Returned =>
          \A g \in StaleSamples : cur = SeqLoop(prog, cur0, g, 0)
    /\ (Par /\ AtSwap) =>
          /\ \A k \in Cells(gHeight, gWidth) : Writes(k) = 1
          /\ "nxt" \notin rdBufs

C16_Witness ==
    /\ Returned /\ iter = 2
    /\ nxt0 # Zero /\ nxt0 # cur /\ nxt0 # cur0
    /\ \E y \in 0..(gHeight - 1), x \in 0..(gWidth - 1) :
          nxt0[y][x] = 1 /\ cur[y][x] = 0
    /\ \E y \in 0..(gHeight - 1), x \in 0..(gWidth - 1) :
          nxt0[y][x] = 0 /\ cur[y][x] = 1

(***************************************************************************)
(* C17: step exchanges the roles of the buffers without altering the old   *)
(* generation.  Whenever step has returned, nxt holds cell for cell the    *)
(* grid cur held when step was called and cur holds its successor; after   *)
(* k steps cur is the rule applied k times to the initial grid and nxt is  *)
(* the rule applied k-1 times.                                             *)
(***************************************************************************)
C17_SwapKeepsOldGeneration ==
    Returned =>
      LET prev == Generation(prog, init0, iter - 1)
      IN  /\ nxt = cur0
          /\ nxt = prev
          /\ cur = SeqLoop(prog, prev, Zero, 0)

C17_Witness ==
    /\ Par /\ AtLoopHead /\ iter = 2
    /\ nxt = cur0
    /\ cur # nxt /\ nxt # init0 /\ cur # init0
    /\ nxt = Generation(prog, init0, 1)

(***************************************************************************)
(* C18: values and indices stay in range.  Once the grids exist, both      *)
(* buffers are height x width grids of cells 0 or 1 in every state (during *)
(* a pass too), every wrapped index (idx + delta + size) % size lies in    *)
(* 0..size-1, and every neighbor count lies in 0..8, inside the index      *)
(* range of the birth and survival tables.                                 *)
(***************************************************************************)
C18_InRange ==
    IsGrid(cur) =>
      /\ AtLoopHead =>
            \A d \in (-1)..1 :
               /\ \A y \in 0..(gHeight - 1) :
                     CRem(y + d + gHeight, gHeight) \in 0..(gHeight - 1)
               /\ \A x \in 0..(gWidth - 1) :
                     CRem(x + d + gWidth, gWidth) \in 0..(gWidth - 1)
      /\ cur \in AllGrids(gHeight, gWidth)
      /\ nxt \in AllGrids(gHeight, gWidth)
      /\ AtLoopHead =>
            \A y \in 0..(gHeight - 1), x \in 0..(gWidth - 1) :
               /\ neighbor_count(cur, y, x) \in 0..8
               /\ neighbor_count(cur, y, x) \in DOMAIN InvB
               /\ neighbor_count(cur, y, x) \in DOMAIN InvS

C18_Witness ==
    /\ Par /\ AtLoopHead /\ iter = 1
    /\ gHeight = 3 /\ gWidth = 3
    /\ cur = Ones /\ nxt = Zero
    /\ neighbor_count(cur, 0, 0) = 8
    /\ CRem(0 + (-1) + gHeight, gHeight) = 2
    /\ CRem(2 + 1 + gWidth, gWidth) = 0

(***************************************************************************)
(* C19: neighbor_count always sums 8 terms, with multiplicity.  On every   *)
(* torus the all-alive grid gives the count 8.  When the width or the      *)
(* height is 1 a cell is its own neighbor (a live cell of a 1x1 grid has   *)
(* the count 8); when a dimension is 2 the other cell along it is counted  *)
(* twice; and on such grids step applies the rule to exactly that count.   *)
(***************************************************************************)
C19_EightTermsWithMultiplicity ==
    (IsGrid(cur) /\ AtLoopHead) =>
      \A y \in 0..(gHeight - 1), x \in 0..(gWidth - 1) :
         /\ iter = 0 =>
               /\ neighbor_count(Ones, y, x) = 8
               /\ (gWidth = 1 /\ gHeight = 1) =>
                     neighbor_count(Unit(y, x), y, x) = 8
               /\ (gWidth = 1 /\ gHeight > 1) =>
                     neighbor_count(Unit(y, x), y, x) = 2
               /\ (gHeight = 1 /\ gWidth > 1) =>
                     neighbor_count(Unit(y, x), y, x) = 2
               /\ (gWidth > 1 /\ gHeight > 1) =>
                     neighbor_count(Unit(y, x), y, x) = 0
               /\ gWidth = 2 =>
                     neighbor_count(Unit(y, 1 - x), y, x)
                        = 2 * (IF gHeight = 1 THEN 3 ELSE 1)
               /\ gHeight = 2 =>
                     neighbor_count(Unit(1 - y, x), y, x)
                        = 2 * (IF gWidth = 1 THEN 3 ELSE 1)
         /\ (gWidth = 1 /\ gHeight = 1) =>
               neighbor_count(cur, y, x) = 8 * cur[y][x]
         /\ (iter > 0 /\ (gWidth <= 2 \/ gHeight <= 2)) =>
               cur[y][x] =
                 (IF Par
                  THEN TableRule(InvB, InvS, cur0[y][x], neighbor_count(cur0, y, x))
                  ELSE ConwayRule(cur0[y][x], neighbor_count(cur0, y, x)))

C19_Witness ==
    /\ Par /\ AtLoopHead /\ iter = 1
    /\ gHeight = 1 /\ gWidth = 1
    /\ cur0[0][0] = 1
    /\ neighbor_count(cur0, 0, 0) = 8
    /\ cur[0][0] = 0

(***************************************************************************)
(* C20: under the Invertamaze tables, on every torus, an all-dead grid is  *)
(* all alive after one step and an all-alive grid is all dead after one    *)
(* step, so a run started all dead is all alive after odd step counts and  *)
(* all dead after even ones, and no step of it leaves the grid unchanged.  *)
(***************************************************************************)
C20_InvertamazeAlternates ==
    (Par /\ Returned) =>
      /\ cur0 = Zero => cur = Ones
      /\ cur0 = Ones => cur = Zero
      /\ init0 = Zero =>
            /\ cur = (IF iter % 2 = 1 THEN Ones ELSE Zero)
            /\ nxt = (IF iter % 2 = 1 THEN Zero ELSE Ones)
            /\ cur # cur0

C20_Witness ==
    /\ Par /\ AtLoopHead /\ iter = 2
    /\ gHeight = 3 /\ gWidth = 3
    /\ init0 = Zero
    /\ cur0 = Ones /\ nxt = Ones
    /\ cur = Zero

====
